---- MODULE Spec2Model ----
(***************************************************************************)
(* State-machine model of src/virtual_piano.py (class VirtualPiano): the   *)
(* run loop, detect_hand, check_click, get_hit_pos, update_ui_states,      *)
(* play_note, draw_sheet_select_popup and the button callbacks.            *)
(*                                                                         *)
(* One iteration of run() is modelled as consecutive steps, in the order   *)
(* the code executes them: ReadFrame (event poll, cap.read, detect_hand),  *)
(* UpdateUI (update_ui_states), Draw (the popup / timer part of the        *)
(* drawing code) and EndIteration.  pc holds the position inside the loop. *)
(* pygame.time.get_ticks() is read several times per iteration; every read *)
(* may return a later value than the previous one.                         *)
(*                                                                         *)
(* Positions are held in hundredths of a pixel (Scale), so that the float  *)
(* tracked pointer and the int() truncations of the code are distinct.     *)
(* Thumb-index distances are held in thousandths.                          *)
(***************************************************************************)
EXTENDS Integers, Sequences, FiniteSets, TLC

(* ---------------- program constants ---------------- *)
SCREEN_WIDTH == 1280
SCREEN_HEIGHT == 720
finger_smooth_alpha == 35
finger_deadzone == 6
click_lock_ms == 200
pinch_on_thresh == 65
pinch_off_thresh == 80
complete_popup_ms == 5000
pointer_top_margin == 0
\* pointer_top_gamma = 1.8 and pointer_bottom_gamma = 1.1 as fractions
top_gamma_num == 9
top_gamma_den == 5
bottom_gamma_num == 11
bottom_gamma_den == 10
Scale == 100

(* ---------------- bounds of the model ---------------- *)
\* get_ticks() grows without bound; the model stops the clock here
MaxTicks == 5001

(* ---------------- enumerations ---------------- *)
UI_NORMAL == "NORMAL"
UI_HOVER == "HOVER"
UI_ACTIVE == "ACTIVE"

MODE_NORMAL == "MODE_NORMAL"
MODE_SHEET_SELECT == "MODE_SHEET_SELECT"
MODE_SHEET_PLAY == "MODE_SHEET_PLAY"
MODE_COMPLETE == "MODE_COMPLETE"

\* Python's None for an Optional[Tuple]
NoPos == <<-1, -1>>
\* Python's None for current_sheet (sheets are numbered 1..3)
NoSheet == 0

(* ---------------- geometry ---------------- *)
Rect(x, y, w, h) == [x |-> x, y |-> y, w |-> w, h |-> h]

\* pygame.Rect.collidepoint with an integer pixel point
collidepoint(r, p) ==
    /\ p # NoPos
    /\ r.x <= p[1] /\ p[1] < r.x + r.w
    /\ r.y <= p[2] /\ p[2] < r.y + r.h

\* collidepoint with the float tracked pointer (hundredths of a pixel)
collidepointF(r, f) ==
    /\ f # NoPos
    /\ r.x * Scale <= f[1] /\ f[1] < (r.x + r.w) * Scale
    /\ r.y * Scale <= f[2] /\ f[2] < (r.y + r.h) * Scale

\* (int(fx), int(fy))
IntPos(f) == IF f = NoPos THEN NoPos ELSE <<f[1] \div Scale, f[2] \div Scale>>

\* (float(x), float(y))
FloatPos(p) == <<p[1] * Scale, p[2] * Scale>>

(* ---------------- piano keys: create_piano_keys ---------------- *)
\* piano_keys in list order: the eight white keys, then the five black keys
KeyNote == <<"C4", "D4", "E4", "F4", "G4", "A4", "B4", "C5",
             "C#4", "D#4", "F#4", "G#4", "A#4">>
NumWhite == 8
Keys == 1..Len(KeyNote)
KeyIsBlack(k) == k > NumWhite
black_positions == <<0, 1, 3, 4, 5>>

KeyRect(k) ==
    LET piano_y == (SCREEN_HEIGHT * 2) \div 3
        piano_height == SCREEN_HEIGHT - piano_y
        white_key_width == 80
        white_key_height == piano_height - 20
        black_key_width == 50
        black_key_height == (white_key_height * 6) \div 10
        start_x == (SCREEN_WIDTH - NumWhite * white_key_width) \div 2
    IN IF KeyIsBlack(k)
       THEN Rect(start_x + black_positions[k - NumWhite] * white_key_width
                   + white_key_width - black_key_width \div 2,
                 piano_y + 10, black_key_width, black_key_height)
       ELSE Rect(start_x + (k - 1) * white_key_width, piano_y + 10,
                 white_key_width, white_key_height)

(* ---------------- buttons: create_buttons ---------------- *)
BTN_EXIT == 1
BTN_SHEET == 2
BTN_EXIT_SHEET == 3
BTN_RESELECT == 4
Buttons == {BTN_EXIT, BTN_SHEET, BTN_EXIT_SHEET, BTN_RESELECT}
normal_buttons == <<BTN_EXIT, BTN_SHEET>>
sheet_mode_buttons == <<BTN_EXIT_SHEET, BTN_RESELECT>>

ButtonRect(b) ==
    LET button_width == 150
        button_height == 40
        margin == 20
    IN CASE b = BTN_EXIT -> Rect(margin, margin, button_width, button_height)
         [] b = BTN_SHEET -> Rect(margin * 2 + button_width, margin,
                                  button_width, button_height)
         [] b = BTN_EXIT_SHEET -> Rect(margin, margin, button_width + 50, button_height)
         [] b = BTN_RESELECT -> Rect(margin * 2 + button_width + 50, margin,
                                     button_width + 50, button_height)

\* faulty variant of ButtonCallback: the exit-practice button ends the program
ButtonCallback_exit_sheet_quits(b) ==
    CASE b = BTN_EXIT -> "exit_game"
      [] b = BTN_SHEET -> "open_sheet_select"
      [] b = BTN_EXIT_SHEET -> "exit_game"
      [] b = BTN_RESELECT -> "open_sheet_select"

ButtonCallback(b) ==
    CASE b = BTN_EXIT -> "exit_game"
      [] b = BTN_SHEET -> "open_sheet_select"
      [] b = BTN_EXIT_SHEET -> "exit_sheet_mode"
      [] b = BTN_RESELECT -> "open_sheet_select"

(* ---------------- sheets: create_sheets ---------------- *)
SheetNotes ==
    << <<"C4", "C4", "G4", "G4", "A4", "A4", "G4",
         "F4", "F4", "E4", "E4", "D4", "D4", "C4">>,
       <<"E4", "E4", "F4", "G4", "G4", "F4", "E4", "D4",
         "C4", "C4", "D4", "E4", "E4", "D4", "D4">>,
       <<"C4", "D4", "E4", "F4", "G4", "A4", "B4", "C5">> >>
Sheets == 1..Len(SheetNotes)

\* item_rect of row i (0-based in the code, 1-based here) of the sheet popup
ItemRect(i) ==
    LET popup_width == 400
        popup_height == 300
        popup_left == (SCREEN_WIDTH - popup_width) \div 2
        popup_top == (SCREEN_HEIGHT - popup_height) \div 2
        item_height == 50
        start_y == popup_top + 80
    IN Rect(popup_left + 20, start_y + (i - 1) * (item_height + 10),
            popup_width - 40, item_height)

(* ---------------- detect_hand: landmark to screen position ---------------- *)
\* A landmark is [x, y].  x is thumb_tip.x in thousandths.  y is thumb_tip.y
\* given by a fraction k/m, so that the powers of the gamma mapping are exact:
\*   "below"  : y < 0
\*   "top"    : y = 0.5 * (k/m)^top_gamma_den,          0 <= k <= m
\*   "bottom" : y = 1 - 0.5 * (k/m)^bottom_gamma_den,   0 <= k < m
\*   "above"  : y > 1
Y_BELOW == [seg |-> "below", k |-> 0, m |-> 1]
Y_ABOVE == [seg |-> "above", k |-> 0, m |-> 1]
YTop(k, m) == [seg |-> "top", k |-> k, m |-> m]
YBottom(k, m) == [seg |-> "bottom", k |-> k, m |-> m]
Y_ZERO == YTop(0, 1)
Y_HALF == YTop(1, 1)
Y_ONE == YBottom(0, 1)

\* y_norm: thumb_tip.y clamped to 0.0 .. 1.0
y_norm(y) ==
    IF y.seg = "below" THEN Y_ZERO
    ELSE IF y.seg = "above" THEN Y_ONE
    ELSE y

\* int(h * ((y_norm / 0.5) ** pointer_top_gamma * 0.5))
top_segment(k, m, h) == (h * k ^ top_gamma_num) \div (2 * m ^ top_gamma_num)

\* int(h * (1.0 - ((1.0 - y_norm) / 0.5) ** pointer_bottom_gamma * 0.5))
bottom_segment(k, m, h) ==
    h - (h * k ^ bottom_gamma_num + 2 * m ^ bottom_gamma_num - 1)
          \div (2 * m ^ bottom_gamma_num)

\* int(pointer_top_margin + (SCREEN_HEIGHT - pointer_top_margin) * y_mapped)
y_unclamped(y) ==
    LET n == y_norm(y)
        h == SCREEN_HEIGHT - pointer_top_margin
    IN pointer_top_margin + (IF n.seg = "top" THEN top_segment(n.k, n.m, h)
                             ELSE bottom_segment(n.k, n.m, h))

\* int(thumb_tip.x * SCREEN_WIDTH); int() truncates towards zero
x_unclamped(x) ==
    IF x >= 0 THEN (x * SCREEN_WIDTH) \div 1000
    ELSE -(((-x) * SCREEN_WIDTH) \div 1000)

\* faulty variant of clamp: no clipping to the screen
clamp_missing(v, limit) == v

\* max(0, min(limit - 1, v))
clamp(v, limit) ==
    LET low == IF v < limit - 1 THEN v ELSE limit - 1
    IN IF low > 0 THEN low ELSE 0

\* (x_screen, y_screen) of a landmark
screen_pos(lm) ==
    <<clamp(x_unclamped(lm.x), SCREEN_WIDTH), clamp(y_unclamped(lm.y), SCREEN_HEIGHT)>>

(* ---------------- inputs ---------------- *)
\* Screen positions (x_screen, y_screen) of the mapped thumb tip.  Every pixel
\* of the screen is the image of some landmark; the model samples these.
P_EXIT == <<30, 30>>       \* inside exit_btn and exit_sheet_btn
P_SHEET == <<250, 30>>     \* inside sheet_btn and reselect_btn
P_ROW1 == <<640, 310>>     \* inside the popup row of sheet 1
P_ROW2 == <<640, 370>>     \* inside the popup row of sheet 2
P_C4 == <<330, 700>>       \* inside white key C4 only
P_D4 == <<410, 700>>       \* inside white key D4 only
P_E4 == <<490, 700>>       \* inside white key E4 only
P_F4 == <<570, 700>>       \* inside white key F4 only
P_G4 == <<650, 700>>       \* inside white key G4 only
P_CS4_D4 == <<410, 500>>   \* inside black key C#4 and white key D4

\* the gesture specification: every widget kind, hand loss, all distances
Points == {P_EXIT, P_SHEET, P_ROW1, P_ROW2, P_C4, P_CS4_D4}
\* the practice specification: every key of sheet 2 and the widgets around it
PracticePoints == {P_EXIT, P_SHEET, P_ROW2, P_C4, P_D4, P_E4, P_F4, P_G4}

\* thumb-index distances, in thousandths: both thresholds and the band between
Dists == {pinch_on_thresh, 72, pinch_off_thresh}
\* the practice specification: pinched and released
PracticeDists == {pinch_on_thresh, pinch_off_thresh}

\* the pointer specification: landmarks left of, on and right of the screen,
\* two of them 2 pixels apart, above, on and below it
LandmarkX == {-500, 0, 500, 502, 1000, 1500}
LandmarkY == {Y_BELOW, Y_ZERO, YTop(3, 4), YTop(5, 6), Y_HALF,
              YBottom(3, 4), YBottom(1, 2), Y_ONE, Y_ABOVE}
Landmarks == [x : LandmarkX, y : LandmarkY]
PointerDists == {pinch_off_thresh}
PointerClockValues == {0}

\* values of pygame.time.get_ticks(), in ms
ClockValues == {0, click_lock_ms - 1, click_lock_ms}
PracticeClockValues == {0, complete_popup_ms - 1, complete_popup_ms + 1}
ClockFrom(clock, t) == {c \in clock : c >= t /\ c <= MaxTicks}

(* ---------------- state ---------------- *)
VARIABLES
    running,                \* self.running
    mode,                   \* self.mode
    hand_tracking_enabled,  \* self.hand_tracking_enabled (fixed at construction)
    raw_finger_pos,         \* self.raw_finger_pos, integer pixels
    finger_pos,             \* self.finger_pos, hundredths of a pixel
    is_finger_bent,         \* self.is_finger_bent
    prev_finger_bent,       \* self.prev_finger_bent
    pinch_active,           \* self._pinch_active
    click_anchor_pos,       \* self.click_anchor_pos
    click_lock_until,       \* self.click_lock_until
    current_sheet,          \* self.current_sheet
    current_note_index,     \* self.current_note_index
    complete_popup_timer,   \* self.complete_popup_timer
    btn_state,              \* Button.state of the four buttons
    key_state,              \* PianoKey.state of the thirteen keys
    ticks,                  \* last value returned by pygame.time.get_ticks()
    pc,                     \* position in run(): loop, update, draw, flip, done
    released,               \* cap.release() / hands.close() executed
    frame,                  \* oracle result for the frame of this iteration
    last_click,             \* tracked pointer and clock of the last click (history)
    trace                   \* what this iteration has done so far (history)

vars == <<running, mode, hand_tracking_enabled, raw_finger_pos, finger_pos,
          is_finger_bent, prev_finger_bent, pinch_active, click_anchor_pos,
          click_lock_until, current_sheet, current_note_index,
          complete_popup_timer, btn_state, key_state, ticks, pc, released,
          frame, last_click, trace>>

\* the object as a record, so that methods are functions from self to self
Self ==
    [running |-> running, mode |-> mode,
     hand_tracking_enabled |-> hand_tracking_enabled,
     raw_finger_pos |-> raw_finger_pos, finger_pos |-> finger_pos,
     is_finger_bent |-> is_finger_bent, prev_finger_bent |-> prev_finger_bent,
     pinch_active |-> pinch_active, click_anchor_pos |-> click_anchor_pos,
     click_lock_until |-> click_lock_until, current_sheet |-> current_sheet,
     current_note_index |-> current_note_index,
     complete_popup_timer |-> complete_popup_timer,
     btn_state |-> btn_state, key_state |-> key_state,
     last_click |-> last_click, trace |-> trace]

Commit(s) ==
    /\ running' = s.running
    /\ mode' = s.mode
    /\ hand_tracking_enabled' = s.hand_tracking_enabled
    /\ raw_finger_pos' = s.raw_finger_pos
    /\ finger_pos' = s.finger_pos
    /\ is_finger_bent' = s.is_finger_bent
    /\ prev_finger_bent' = s.prev_finger_bent
    /\ pinch_active' = s.pinch_active
    /\ click_anchor_pos' = s.click_anchor_pos
    /\ click_lock_until' = s.click_lock_until
    /\ current_sheet' = s.current_sheet
    /\ current_note_index' = s.current_note_index
    /\ complete_popup_timer' = s.complete_popup_timer
    /\ btn_state' = s.btn_state
    /\ key_state' = s.key_state
    /\ last_click' = s.last_click
    /\ trace' = s.trace

\* the oracle reports no hand
NoHand == [present |-> FALSE, pos |-> NoPos, dist |-> 0]
DetectedHands(points, dists) == [present : {TRUE}, pos : points, dist : dists]
\* the gesture specification: the oracle may lose the hand
Hands == {NoHand} \cup DetectedHands(Points, Dists)
\* the practice specification: the oracle finds the hand in every frame
PracticeHands == DetectedHands(PracticePoints, PracticeDists)

\* the pointer specification: hands given by the landmark of the thumb tip
LandmarkHands(landmarks, dists) ==
    {[present |-> TRUE, pos |-> screen_pos(l), dist |-> d, lm |-> l] :
        l \in landmarks, d \in dists}
PointerHands == LandmarkHands(Landmarks, PointerDists)

\* no click has happened yet
NoClick == [any |-> FALSE, fp |-> NoPos, now |-> 0]

\* history of one iteration: empty at the top of the loop
NoTrace ==
    [got_frame |-> FALSE,   \* cap.read() returned a frame
     skipped |-> FALSE,     \* cap.read() returned no frame since the last frame
     after_gap |-> FALSE,   \* hand detected now, not detected on the previous frame
     gap_active |-> FALSE,  \* ... and the pinch was active when the hand was lost
     mode0 |-> MODE_NORMAL, \* mode, sheet, index and pinch at the top of the loop
     sheet0 |-> NoSheet,
     idx0 |-> 0,
     pinch0 |-> FALSE,
     bent0 |-> FALSE,
     checks |-> 0,          \* evaluations of check_click
     clicks |-> 0,          \* evaluations of check_click that returned True
     hits |-> {},           \* <<clock, result>> of every get_hit_pos call
     key_hit |-> NoPos,     \* result of the get_hit_pos call of the key test
     key_tested |-> FALSE,  \* the key test ran
     calls |-> <<>>,        \* callbacks, select_sheet and play_note calls
     draw_mode |-> MODE_NORMAL, \* mode when the drawing code starts
     draw_now |-> 0,        \* clock read by the drawing code
     row_state |-> [i \in Sheets |-> UI_NORMAL], \* state the popup rows are drawn in
     pos0 |-> NoPos,        \* pointer specification only: finger_pos and
     raw0 |-> NoPos]        \* raw_finger_pos at the top of the loop

Init ==
    /\ running = TRUE
    /\ mode = MODE_NORMAL
    /\ hand_tracking_enabled \in BOOLEAN
    /\ raw_finger_pos = NoPos
    /\ finger_pos = NoPos
    /\ is_finger_bent = FALSE
    /\ prev_finger_bent = FALSE
    /\ pinch_active = FALSE
    /\ click_anchor_pos = NoPos
    /\ click_lock_until = 0
    /\ current_sheet = NoSheet
    /\ current_note_index = 0
    /\ complete_popup_timer = 0
    /\ btn_state = [b \in Buttons |-> UI_NORMAL]
    /\ key_state = [k \in Keys |-> UI_NORMAL]
    /\ ticks = 0
    /\ pc = "loop"
    /\ released = FALSE
    /\ frame = NoHand
    /\ last_click = NoClick
    /\ trace = NoTrace

(* ---------------- detect_hand ---------------- *)
\* not (dx*dx + dy*dy >= finger_deadzone * finger_deadzone) for the tracked
\* pointer f and the sample p; a coordinate that is off by the deadzone or more
\* decides without squaring
InDeadzone(f, p) ==
    LET dx == p[1] * Scale - f[1]
        dy == p[2] * Scale - f[2]
        dz == finger_deadzone * Scale
    IN /\ -dz < dx /\ dx < dz
       /\ -dz < dy /\ dy < dz
       /\ dx * dx + dy * dy < dz * dz

\* the smoothing branch of detect_hand: px*(1-a) + x_screen*a unless the sample
\* lies inside the deadzone of the tracked pointer
smooth(f, p) ==
    IF ~InDeadzone(f, p)
    THEN <<(f[1] * (100 - finger_smooth_alpha) + p[1] * Scale * finger_smooth_alpha) \div 100,
           (f[2] * (100 - finger_smooth_alpha) + p[2] * Scale * finger_smooth_alpha) \div 100>>
    ELSE f

\* the hysteresis on the thumb-index distance
pinch_update(active, dist) ==
    IF active
    THEN (IF dist >= pinch_off_thresh THEN FALSE ELSE TRUE)
    ELSE (IF dist <= pinch_on_thresh THEN TRUE ELSE FALSE)

\* faulty variant of detect_hand: finger_pos is not reset for the frame
detect_hand_keeps_pointer(s, hand) ==
    IF ~s.hand_tracking_enabled
    THEN [s EXCEPT !.finger_pos = NoPos, !.is_finger_bent = FALSE,
                   !.prev_finger_bent = FALSE]
    ELSE LET s0 == [s EXCEPT !.is_finger_bent = FALSE]
         IN IF hand.present
            THEN LET fp == IF s0.finger_pos = NoPos
                           THEN FloatPos(hand.pos)
                           ELSE smooth(s0.finger_pos, hand.pos)
                     pa == pinch_update(s0.pinch_active, hand.dist)
                 IN [s0 EXCEPT !.raw_finger_pos = hand.pos,
                               !.finger_pos = fp,
                               !.pinch_active = pa,
                               !.is_finger_bent = pa]
            ELSE s0

\* faulty variant of detect_hand: is_finger_bent is not reset for the frame
detect_hand_keeps_bent(s, hand) ==
    IF ~s.hand_tracking_enabled
    THEN [s EXCEPT !.finger_pos = NoPos, !.is_finger_bent = FALSE,
                   !.prev_finger_bent = FALSE]
    ELSE LET s0 == [s EXCEPT !.finger_pos = NoPos]
         IN IF hand.present
            THEN LET fp == IF s0.finger_pos = NoPos
                           THEN FloatPos(hand.pos)
                           ELSE smooth(s0.finger_pos, hand.pos)
                     pa == pinch_update(s0.pinch_active, hand.dist)
                 IN [s0 EXCEPT !.raw_finger_pos = hand.pos,
                               !.finger_pos = fp,
                               !.pinch_active = pa,
                               !.is_finger_bent = pa]
            ELSE s0

\* detect_hand(frame); hand is what self.hands.process(frame) returns
detect_hand(s, hand) ==
    IF ~s.hand_tracking_enabled
    THEN [s EXCEPT !.finger_pos = NoPos, !.is_finger_bent = FALSE,
                   !.prev_finger_bent = FALSE]
    ELSE LET s0 == [s EXCEPT !.finger_pos = NoPos, !.is_finger_bent = FALSE]
         IN IF hand.present
            THEN LET fp == IF s0.finger_pos = NoPos
                           THEN FloatPos(hand.pos)
                           ELSE smooth(s0.finger_pos, hand.pos)
                     pa == pinch_update(s0.pinch_active, hand.dist)
                 IN [s0 EXCEPT !.raw_finger_pos = hand.pos,
                               !.finger_pos = fp,
                               !.pinch_active = pa,
                               !.is_finger_bent = pa]
            ELSE s0

(* ---------------- check_click, get_hit_pos ---------------- *)
\* faulty variant of check_click: prev_finger_bent is not updated
check_click_keeps_prev(s, now) ==
    LET clicked == s.is_finger_bent /\ ~s.prev_finger_bent
        anchor == IF s.finger_pos # NoPos THEN IntPos(s.finger_pos)
                  ELSE s.raw_finger_pos
        s1 == IF clicked /\ anchor # NoPos
              THEN [s EXCEPT !.click_anchor_pos = anchor,
                             !.click_lock_until = now + click_lock_ms]
              ELSE s
    IN [self |-> s1, clicked |-> clicked]

\* returns the object after the call and the value returned
check_click(s, now) ==
    LET clicked == s.is_finger_bent /\ ~s.prev_finger_bent
        anchor == IF s.finger_pos # NoPos THEN IntPos(s.finger_pos)
                  ELSE s.raw_finger_pos
        s1 == IF clicked /\ anchor # NoPos
              THEN [s EXCEPT !.click_anchor_pos = anchor,
                             !.click_lock_until = now + click_lock_ms]
              ELSE s
    IN [self |-> [s1 EXCEPT !.prev_finger_bent = s.is_finger_bent],
        clicked |-> clicked]

\* faulty variant of get_hit_pos: the lock window is never honoured
get_hit_pos_unlocked(s, now) ==
    IF s.finger_pos = NoPos THEN NoPos ELSE IntPos(s.finger_pos)

get_hit_pos(s, now) ==
    IF s.click_anchor_pos # NoPos /\ now < s.click_lock_until
    THEN s.click_anchor_pos
    ELSE IF s.finger_pos = NoPos THEN NoPos ELSE IntPos(s.finger_pos)

(* ---------------- callbacks ---------------- *)
exit_game(s) == [s EXCEPT !.running = FALSE]

open_sheet_select(s) == [s EXCEPT !.mode = MODE_SHEET_SELECT]

\* faulty variant of select_sheet: the note index of the previous session is kept
select_sheet_keeps_index(s, sheet) ==
    [s EXCEPT !.current_sheet = sheet, !.mode = MODE_SHEET_PLAY]

select_sheet(s, sheet) ==
    [s EXCEPT !.current_sheet = sheet, !.current_note_index = 0,
              !.mode = MODE_SHEET_PLAY]

\* faulty variant of exit_sheet_mode: sheet and note index are kept
exit_sheet_mode_keeps_session(s) == [s EXCEPT !.mode = MODE_NORMAL]

\* faulty variant of exit_sheet_mode: leaves to the sheet popup instead of free play
exit_sheet_mode_to_popup(s) ==
    [s EXCEPT !.mode = MODE_SHEET_SELECT, !.current_sheet = NoSheet,
              !.current_note_index = 0]

exit_sheet_mode(s) ==
    [s EXCEPT !.mode = MODE_NORMAL, !.current_sheet = NoSheet,
              !.current_note_index = 0]

run_callback(s, btn) ==
    CASE ButtonCallback(btn) = "exit_game" -> exit_game(s)
      [] ButtonCallback(btn) = "open_sheet_select" -> open_sheet_select(s)
      [] ButtonCallback(btn) = "exit_sheet_mode" -> exit_sheet_mode(s)

(* ---------------- play_note ---------------- *)
\* self.sounds has one entry per piano key
Sounds == {KeyNote[k] : k \in Keys}

\* faulty variant of play_note: the completion test is > instead of >=
play_note_late_complete(s, note, now) ==
    IF note \in Sounds
    THEN IF s.mode = MODE_SHEET_PLAY /\ s.current_sheet # NoSheet
         THEN IF s.current_note_index < Len(SheetNotes[s.current_sheet])
              THEN IF note = SheetNotes[s.current_sheet][s.current_note_index + 1]
                   THEN LET s1 == [s EXCEPT !.current_note_index = @ + 1]
                        IN IF s1.current_note_index > Len(SheetNotes[s1.current_sheet])
                           THEN [s1 EXCEPT !.mode = MODE_COMPLETE,
                                           !.complete_popup_timer = now]
                           ELSE s1
                   ELSE s
              ELSE s
         ELSE s
    ELSE s

\* faulty variant of play_note: a wrong note takes one step of progress back
play_note_penalty(s, note, now) ==
    IF note \in Sounds
    THEN IF s.mode = MODE_SHEET_PLAY /\ s.current_sheet # NoSheet
         THEN IF s.current_note_index < Len(SheetNotes[s.current_sheet])
              THEN IF note = SheetNotes[s.current_sheet][s.current_note_index + 1]
                   THEN LET s1 == [s EXCEPT !.current_note_index = @ + 1]
                        IN IF s1.current_note_index >= Len(SheetNotes[s1.current_sheet])
                           THEN [s1 EXCEPT !.mode = MODE_COMPLETE,
                                           !.complete_popup_timer = now]
                           ELSE s1
                   ELSE [s EXCEPT !.current_note_index = IF @ > 0 THEN @ - 1 ELSE 0]
              ELSE s
         ELSE s
    ELSE s

play_note(s, note, now) ==
    IF note \in Sounds
    THEN IF s.mode = MODE_SHEET_PLAY /\ s.current_sheet # NoSheet
         THEN IF s.current_note_index < Len(SheetNotes[s.current_sheet])
              THEN IF note = SheetNotes[s.current_sheet][s.current_note_index + 1]
                   THEN LET s1 == [s EXCEPT !.current_note_index = @ + 1]
                        IN IF s1.current_note_index >= Len(SheetNotes[s1.current_sheet])
                           THEN [s1 EXCEPT !.mode = MODE_COMPLETE,
                                           !.complete_popup_timer = now]
                           ELSE s1
                   ELSE s
              ELSE s
         ELSE s
    ELSE s

(* ---------------- history bookkeeping (no effect on the program) ---------------- *)
\* a call of a callback, select_sheet or play_note: s0 before, s1 after
LogCall(s0, s1, op, arg) ==
    [s1 EXCEPT !.trace.calls =
        Append(@, [op |-> op, arg |-> arg,
                   mode_before |-> s0.mode, sheet_before |-> s0.current_sheet,
                   idx_before |-> s0.current_note_index,
                   mode_after |-> s1.mode, sheet_after |-> s1.current_sheet,
                   idx_after |-> s1.current_note_index])]

\* an evaluation of check_click at clock now
LogClick(s0, r, now) ==
    [self |-> [r.self EXCEPT
                 !.trace.checks = @ + 1,
                 !.trace.clicks = IF r.clicked THEN @ + 1 ELSE @,
                 !.last_click = IF r.clicked
                                THEN [any |-> TRUE, fp |-> s0.finger_pos, now |-> now]
                                ELSE @],
     clicked |-> r.clicked]

LogHit(s, now, hit_pos) == [s EXCEPT !.trace.hits = @ \cup {<<now, hit_pos>>}]

(* ---------------- update_ui_states ---------------- *)
\* for btn in active_buttons; every iteration calls get_hit_pos
RECURSIVE button_loop(_, _, _, _, _)
button_loop(s, active_buttons, i, clicked, now) ==
    IF i > Len(active_buttons)
    THEN s
    ELSE LET btn == active_buttons[i]
             hit_pos == get_hit_pos(s, now)
             sh == LogHit(s, now, hit_pos)
             s1 == IF hit_pos # NoPos /\ collidepoint(ButtonRect(btn), hit_pos)
                   THEN IF clicked
                        THEN LET sa == [sh EXCEPT !.btn_state[btn] = UI_ACTIVE]
                             IN LogCall(sa, run_callback(sa, btn), ButtonCallback(btn), btn)
                        ELSE [sh EXCEPT !.btn_state[btn] = UI_HOVER]
                   ELSE [sh EXCEPT !.btn_state[btn] = UI_NORMAL]
         IN button_loop(s1, active_buttons, i + 1, clicked, now)

FirstOf(S) == IF S = {} THEN 0 ELSE CHOOSE k \in S : \A j \in S : k <= j

\* faulty variant of target_key: white keys are tested first
target_key_white_first(hit_pos) ==
    IF hit_pos = NoPos
    THEN 0
    ELSE LET black == FirstOf({k \in Keys : KeyIsBlack(k) /\ collidepoint(KeyRect(k), hit_pos)})
             white == FirstOf({k \in Keys : ~KeyIsBlack(k) /\ collidepoint(KeyRect(k), hit_pos)})
         IN IF white # 0 THEN white ELSE black

\* the key under hit_pos, black keys first; 0 is None
target_key(hit_pos) ==
    IF hit_pos = NoPos
    THEN 0
    ELSE LET black == FirstOf({k \in Keys : KeyIsBlack(k) /\ collidepoint(KeyRect(k), hit_pos)})
             white == FirstOf({k \in Keys : ~KeyIsBlack(k) /\ collidepoint(KeyRect(k), hit_pos)})
         IN IF black # 0 THEN black ELSE white

\* faulty variant of key_loop: the white key under a hit black key is
\* activated and played as well
key_loop_plays_overlapping(s, target, clicked, now) ==
    LET white == FirstOf({k \in Keys : ~KeyIsBlack(k)
                                        /\ collidepoint(KeyRect(k), s.trace.key_hit)})
        s1 == [s EXCEPT !.key_state =
                  [k \in Keys |-> IF k # 0 /\ (k = target \/ k = white)
                                  THEN (IF clicked THEN UI_ACTIVE ELSE UI_HOVER)
                                  ELSE UI_NORMAL]]
        s2 == IF target # 0 /\ clicked
              THEN LogCall(s1, play_note(s1, KeyNote[target], now), "play_note", target)
              ELSE s1
    IN IF white # 0 /\ white # target /\ clicked
       THEN LogCall(s2, play_note(s2, KeyNote[white], now), "play_note", white)
       ELSE s2

\* for key in self.piano_keys: the target becomes ACTIVE (and is played) or HOVER
key_loop(s, target, clicked, now) ==
    LET s1 == [s EXCEPT !.key_state =
                  [k \in Keys |-> IF k = target
                                  THEN (IF clicked THEN UI_ACTIVE ELSE UI_HOVER)
                                  ELSE UI_NORMAL]]
    IN IF target # 0 /\ clicked
       THEN LogCall(s1, play_note(s1, KeyNote[target], now), "play_note", target)
       ELSE s1

\* faulty variant of update_ui_states: the sheet popup is handled like NORMAL
update_ui_states_popup_as_normal(s, now1, now2) ==
    LET c == LogClick(s, check_click(s, now1), now1)
        active_buttons ==
            IF c.self.mode \in {MODE_NORMAL, MODE_SHEET_SELECT} THEN normal_buttons
            ELSE IF c.self.mode = MODE_SHEET_PLAY THEN sheet_mode_buttons
            ELSE <<>>
        sb == button_loop(c.self, active_buttons, 1, c.clicked, now1)
    IN IF sb.mode \in {MODE_NORMAL, MODE_SHEET_PLAY}
       THEN LET hit_pos == get_hit_pos(sb, now2)
                sk == [LogHit(sb, now2, hit_pos) EXCEPT !.trace.key_hit = hit_pos,
                                                        !.trace.key_tested = TRUE]
            IN key_loop(sk, target_key(hit_pos), c.clicked, now2)
       ELSE sb

\* now1 is the clock of check_click and of the button loop, now2 >= now1 the
\* clock of the key test and of play_note
update_ui_states(s, now1, now2) ==
    LET c == IF s.mode # MODE_SHEET_SELECT
             THEN LogClick(s, check_click(s, now1), now1)
             ELSE [self |-> s, clicked |-> FALSE]
        active_buttons ==
            IF c.self.mode = MODE_NORMAL THEN normal_buttons
            ELSE IF c.self.mode = MODE_SHEET_PLAY THEN sheet_mode_buttons
            ELSE <<>>
        sb == button_loop(c.self, active_buttons, 1, c.clicked, now1)
    IN IF sb.mode \in {MODE_NORMAL, MODE_SHEET_PLAY}
       THEN LET hit_pos == get_hit_pos(sb, now2)
                sk == [LogHit(sb, now2, hit_pos) EXCEPT !.trace.key_hit = hit_pos,
                                                        !.trace.key_tested = TRUE]
            IN key_loop(sk, target_key(hit_pos), c.clicked, now2)
       ELSE sb

(* ---------------- drawing code of run() that changes state ---------------- *)
RECURSIVE row_loop(_, _, _)
row_loop(s, i, clicked) ==
    IF i > Len(SheetNotes)
    THEN s
    ELSE LET s1 == IF s.finger_pos # NoPos /\ collidepointF(ItemRect(i), s.finger_pos)
                   THEN IF clicked
                        THEN LET sa == [s EXCEPT !.trace.row_state[i] = UI_ACTIVE]
                             IN LogCall(sa, select_sheet(sa, i), "select_sheet", i)
                        ELSE [s EXCEPT !.trace.row_state[i] = UI_HOVER]
                   ELSE [s EXCEPT !.trace.row_state[i] = UI_NORMAL]
         IN row_loop(s1, i + 1, clicked)

draw_sheet_select_popup(s, now) ==
    LET c == LogClick(s, check_click(s, now), now)
    IN row_loop(c.self, 1, c.clicked)

\* faulty variant of complete_popup_expired: the limit is taken in seconds
complete_popup_expired_seconds(s, now) == now - s.complete_popup_timer > complete_popup_ms \div 1000

\* the 5 second timer of the completion popup
complete_popup_expired(s, now) == now - s.complete_popup_timer > complete_popup_ms

draw_popups(s, now) ==
    IF s.mode = MODE_SHEET_SELECT
    THEN draw_sheet_select_popup(s, now)
    ELSE IF s.mode = MODE_COMPLETE
         THEN (IF complete_popup_expired(s, now) THEN exit_sheet_mode(s) ELSE s)
         ELSE s

(* ---------------- the run loop ---------------- *)
\* history of the iteration that starts in s with the oracle result hand
StartTrace(s, hand) ==
    [NoTrace EXCEPT
       !.got_frame = TRUE,
       !.after_gap = hand.present /\ s.finger_pos = NoPos /\ s.raw_finger_pos # NoPos,
       !.gap_active = hand.present /\ s.finger_pos = NoPos /\ s.pinch_active,
       !.mode0 = s.mode, !.sheet0 = s.current_sheet, !.idx0 = s.current_note_index,
       !.pinch0 = s.pinch_active, !.bent0 = s.is_finger_bent]

\* faulty variant of NoFrame: detect_hand and update_ui_states run on an
\* iteration without a frame, as on a frame without a hand
NoFrame_runs_update(quits) ==
    /\ pc = "loop" /\ running
    /\ \E quit \in quits :
         LET s0 == [Self EXCEPT !.running = IF quit THEN FALSE ELSE @,
                                !.trace.skipped = TRUE]
             s1 == update_ui_states(detect_hand(s0, NoHand), ticks, ticks)
         IN Commit([s1 EXCEPT !.trace = s0.trace])
    /\ UNCHANGED <<ticks, pc, released, frame>>

\* pygame.event.get() may deliver QUIT; cap.read() yields no frame: the body
\* of `if ret:` is skipped
NoFrame(quits) ==
    /\ pc = "loop" /\ running
    /\ \E quit \in quits :
         running' = (IF quit THEN FALSE ELSE running)
    /\ trace' = [trace EXCEPT !.skipped = TRUE]
    /\ UNCHANGED <<mode, hand_tracking_enabled, raw_finger_pos, finger_pos,
                   is_finger_bent, prev_finger_bent, pinch_active,
                   click_anchor_pos, click_lock_until, current_sheet,
                   current_note_index, complete_popup_timer, btn_state,
                   key_state, ticks, pc, released, frame, last_click>>

\* history of the pointer specification: also the pointer before the frame
PointerTrace(s, hand) ==
    [StartTrace(s, hand) EXCEPT !.pos0 = s.finger_pos, !.raw0 = s.raw_finger_pos]

\* pygame.event.get() may deliver QUIT; cap.read() yields a frame; detect_hand.
\* pointer_history: the history record also keeps the pointer before the frame.
ReadFrame(quits, hands, pointer_history) ==
    /\ pc = "loop" /\ running
    /\ \E quit \in quits, hand \in hands :
         LET s0 == [Self EXCEPT !.running = IF quit THEN FALSE ELSE @]
             seen == IF s0.hand_tracking_enabled THEN hand ELSE NoHand
             history == IF pointer_history THEN PointerTrace(s0, seen)
                                           ELSE StartTrace(s0, seen)
         IN /\ Commit([detect_hand(s0, seen) EXCEPT !.trace = history])
            /\ frame' = seen
    /\ pc' = "update"
    /\ UNCHANGED <<ticks, released>>

UpdateUI(clock) ==
    /\ pc = "update"
    /\ \E now1 \in ClockFrom(clock, ticks) : \E now2 \in ClockFrom(clock, now1) :
         /\ Commit(update_ui_states(Self, now1, now2))
         /\ ticks' = now2
    /\ pc' = "draw"
    /\ UNCHANGED <<released, frame>>

Draw(clock) ==
    /\ pc = "draw"
    /\ \E now \in ClockFrom(clock, ticks) :
         /\ Commit(draw_popups([Self EXCEPT !.trace.draw_mode = mode,
                                            !.trace.draw_now = now], now))
         /\ ticks' = now
    /\ pc' = "flip"
    /\ UNCHANGED <<released, frame>>

\* pygame.display.flip(); self.clock.tick(30): the iteration ends
EndIteration ==
    /\ pc = "flip"
    /\ pc' = "loop"
    /\ frame' = NoHand
    /\ trace' = NoTrace
    /\ UNCHANGED <<running, mode, hand_tracking_enabled, raw_finger_pos, finger_pos,
                   is_finger_bent, prev_finger_bent, pinch_active,
                   click_anchor_pos, click_lock_until, current_sheet,
                   current_note_index, complete_popup_timer, btn_state,
                   key_state, ticks, released, last_click>>

\* the loop has ended: cap.release(), hands.close(), pygame.quit()
Cleanup ==
    /\ pc = "loop" /\ ~running
    /\ pc' = "done"
    /\ released' = TRUE
    /\ UNCHANGED <<running, mode, hand_tracking_enabled, raw_finger_pos, finger_pos,
                   is_finger_bent, prev_finger_bent, pinch_active,
                   click_anchor_pos, click_lock_until, current_sheet,
                   current_note_index, complete_popup_timer, btn_state,
                   key_state, ticks, frame, last_click, trace>>

\* the gesture specification
Next ==
    \/ NoFrame(BOOLEAN)
    \/ ReadFrame(BOOLEAN, Hands, FALSE)
    \/ UpdateUI(ClockValues)
    \/ Draw(ClockValues)
    \/ EndIteration
    \/ Cleanup

Spec == Init /\ [][Next]_vars

\* the practice specification: no QUIT event, a hand in every frame, long clock
\* steps
NextPractice ==
    \/ NoFrame({FALSE})
    \/ ReadFrame({FALSE}, PracticeHands, FALSE)
    \/ UpdateUI(PracticeClockValues)
    \/ Draw(PracticeClockValues)
    \/ EndIteration
    \/ Cleanup

SpecPractice == Init /\ [][NextPractice]_vars

\* the pointer specification: hands given by landmarks, no pinch
NextPointer ==
    \/ NoFrame(BOOLEAN)
    \/ ReadFrame(BOOLEAN, PointerHands, TRUE)
    \/ UpdateUI(PointerClockValues)
    \/ Draw(PointerClockValues)
    \/ EndIteration
    \/ Cleanup

SpecPointer == Init /\ [][NextPointer]_vars

(* ======================= properties ======================= *)
\* an iteration that got a frame has run to its end; trace and frame describe it
TickDone == pc = "flip"

\* the play_note calls of this iteration
PlayCalls == SelectSeq(trace.calls, LAMBDA c : c.op = "play_note")

(* C1: when the hand was lost while the pinch was active, the first frame *)
(* that shows the hand again with a distance above pinch_on_thresh leaves *)
(* the pinch inactive and fires no click.                                 *)
C1_RedetectionResumesInactive ==
    (TickDone /\ frame.present /\ trace.gap_active /\ frame.dist > pinch_on_thresh)
        => (~is_finger_bent /\ ~pinch_active /\ trace.clicks = 0)

(* C2: on a frame with a hand whose distance lies strictly between the two *)
(* thresholds the pinch state keeps the value it had before the frame and  *)
(* no click fires.                                                         *)
C2_HysteresisKeepsState ==
    (TickDone /\ frame.present
       /\ pinch_on_thresh < frame.dist /\ frame.dist < pinch_off_thresh)
        => (/\ pinch_active = trace.pinch0
            /\ is_finger_bent = trace.bent0
            /\ trace.clicks = 0)

(* C3: as long as the hand is not lost during a pinch, check_click returns *)
(* True exactly once in the frame where the distance first is at or below *)
(* pinch_on_thresh (the pinch was inactive before) and in no other frame, *)
(* in every mode and however often check_click is evaluated in the        *)
(* iteration.                                                             *)
C3_SingleEdgePerPinch ==
    (TickDone /\ frame.present /\ ~trace.gap_active)
        => trace.clicks = (IF frame.dist <= pinch_on_thresh /\ ~trace.pinch0
                           THEN 1 ELSE 0)

\* the mode changed to the popup in update_ui_states, so check_click ran twice
C3_Witness ==
    /\ TickDone /\ frame.present /\ ~trace.gap_active
    /\ trace.checks = 2 /\ trace.clicks = 1
    /\ trace.mode0 = MODE_SHEET_PLAY /\ mode = MODE_SHEET_SELECT

(* C4: every get_hit_pos call made before the clock reaches the time of   *)
(* the last click plus click_lock_ms returns the pointer tracked at that  *)
(* click; every other call returns the current tracked pointer, or None.  *)
C4_AnchorLock ==
    \A h \in trace.hits :
        IF last_click.any /\ h[1] < last_click.now + click_lock_ms
        THEN h[2] # NoPos /\ FloatPos(h[2]) = last_click.fp
        ELSE h[2] = IntPos(finger_pos)

\* a later frame inside the lock window, the pointer has moved to another place
C4_Witness ==
    /\ TickDone /\ trace.clicks = 0 /\ last_click.any
    /\ finger_pos # NoPos /\ finger_pos # last_click.fp
    /\ \E h \in trace.hits : h[1] < last_click.now + click_lock_ms
                             /\ FloatPos(h[2]) = last_click.fp

(* C5: a play_note call in SHEET_PLAY adds one to current_note_index when *)
(* the note is the expected one and leaves it alone otherwise; the mode   *)
(* becomes COMPLETE exactly in the call that makes the index equal to the *)
(* number of notes of the sheet.                                          *)
C5_PracticeProgress ==
    \A i \in 1..Len(trace.calls) :
        LET c == trace.calls[i]
        IN (c.op = "play_note" /\ c.mode_before = MODE_SHEET_PLAY)
            => /\ c.sheet_before # NoSheet
               /\ c.sheet_after = c.sheet_before
               /\ LET notes == SheetNotes[c.sheet_before]
                      correct == /\ c.idx_before < Len(notes)
                                 /\ KeyNote[c.arg] = notes[c.idx_before + 1]
                  IN /\ c.idx_after = c.idx_before + (IF correct THEN 1 ELSE 0)
                     /\ c.mode_after = (IF c.idx_after = Len(notes)
                                        THEN MODE_COMPLETE ELSE MODE_SHEET_PLAY)

\* the last note of a sheet is played
C5_Witness ==
    /\ TickDone
    /\ \E i \in 1..Len(trace.calls) :
         /\ trace.calls[i].op = "play_note"
         /\ trace.calls[i].mode_before = MODE_SHEET_PLAY
         /\ trace.calls[i].idx_before > 0
         /\ trace.calls[i].mode_after = MODE_COMPLETE

(* C6: update_ui_states never leaves COMPLETE; when the drawing code runs *)
(* in COMPLETE with the clock at most 4999 ms after the completion time   *)
(* the mode stays COMPLETE, and with the clock at least 5001 ms after it  *)
(* the mode becomes NORMAL with no sheet and note index 0.                *)
C6_AutoDismiss ==
    /\ (pc \in {"draw", "flip"} /\ trace.mode0 = MODE_COMPLETE)
          => (IF pc = "draw" THEN mode ELSE trace.draw_mode) = MODE_COMPLETE
    /\ (TickDone /\ trace.draw_mode = MODE_COMPLETE)
          => /\ trace.draw_now <= complete_popup_timer + complete_popup_ms - 1
                  => mode = MODE_COMPLETE
             /\ trace.draw_now >= complete_popup_timer + complete_popup_ms + 1
                  => /\ mode = MODE_NORMAL
                     /\ current_sheet = NoSheet
                     /\ current_note_index = 0

\* a click in COMPLETE, 4999 ms after the completion: the popup stays
C6_Witness ==
    /\ TickDone /\ trace.mode0 = MODE_COMPLETE /\ trace.clicks = 1
    /\ trace.draw_now = complete_popup_timer + complete_popup_ms - 1
    /\ mode = MODE_COMPLETE

\* mode pairs of the transition table that need a click
ClickDriven ==
    { <<MODE_NORMAL, MODE_SHEET_SELECT>>, <<MODE_SHEET_SELECT, MODE_SHEET_PLAY>>,
      <<MODE_SHEET_PLAY, MODE_SHEET_SELECT>>, <<MODE_SHEET_PLAY, MODE_NORMAL>>,
      <<MODE_SHEET_PLAY, MODE_COMPLETE>> }

\* the mode change a callback or play_note call may make, by operation
CallChange(c) ==
    CASE c.op = "open_sheet_select" ->
            /\ c.mode_after = MODE_SHEET_SELECT
            /\ \/ c.arg = BTN_SHEET /\ c.mode_before = MODE_NORMAL
               \/ c.arg = BTN_RESELECT /\ c.mode_before = MODE_SHEET_PLAY
      [] c.op = "select_sheet" ->
            c.mode_before = MODE_SHEET_SELECT /\ c.mode_after = MODE_SHEET_PLAY
      [] c.op = "exit_sheet_mode" ->
            /\ c.arg = BTN_EXIT_SHEET
            /\ c.mode_before = MODE_SHEET_PLAY /\ c.mode_after = MODE_NORMAL
      [] c.op = "play_note" ->
            c.mode_before = MODE_SHEET_PLAY /\ c.mode_after = MODE_COMPLETE
      [] OTHER -> FALSE

\* the mode after the last call of the iteration
ModeAfterCalls ==
    IF trace.calls = <<>> THEN trace.mode0
    ELSE trace.calls[Len(trace.calls)].mode_after

(* C7: over one iteration the mode stays or changes by a pair of the      *)
(* table; every change is made by the call the table names for it, on an  *)
(* iteration with a click, or is COMPLETE -> NORMAL by the expired timer. *)
C7_ClosedTransitions ==
    TickDone =>
      /\ \/ mode = trace.mode0
         \/ <<trace.mode0, mode>> \in ClickDriven /\ trace.clicks >= 1
         \/ <<trace.mode0, mode>> = <<MODE_COMPLETE, MODE_NORMAL>>
      /\ \A i \in 1..Len(trace.calls) :
            LET c == trace.calls[i]
            IN /\ trace.clicks >= 1
               /\ c.mode_before = (IF i = 1 THEN trace.mode0
                                   ELSE trace.calls[i - 1].mode_after)
               /\ \/ c.mode_after = c.mode_before
                  \/ /\ <<c.mode_before, c.mode_after>> \in ClickDriven
                     /\ CallChange(c)
      /\ \/ mode = ModeAfterCalls
         \/ /\ ModeAfterCalls = MODE_COMPLETE /\ mode = MODE_NORMAL
            /\ trace.draw_now - complete_popup_timer > complete_popup_ms

\* the popup of a completed sheet is dismissed by the timer, without a click
C7_Witness ==
    /\ TickDone /\ trace.mode0 = MODE_COMPLETE /\ mode = MODE_NORMAL
    /\ trace.clicks = 0 /\ trace.calls = <<>>

\* the keys that contain position p
KeysAt(p) == {k \in Keys : collidepoint(KeyRect(k), p)}

(* C8: a click on a position inside a black key and a white key plays the *)
(* black key only: one play_note call, the black key ACTIVE, the white    *)
(* key NORMAL.                                                            *)
C8_BlackKeyPriority ==
    (/\ pc \in {"draw", "flip"} /\ trace.key_tested /\ trace.clicks >= 1
     /\ \E b \in KeysAt(trace.key_hit) : KeyIsBlack(b)
     /\ \E w \in KeysAt(trace.key_hit) : ~KeyIsBlack(w))
        => /\ Len(PlayCalls) = 1
           /\ PlayCalls[1].arg \in KeysAt(trace.key_hit)
           /\ KeyIsBlack(PlayCalls[1].arg)
           /\ key_state[PlayCalls[1].arg] = UI_ACTIVE
           /\ \A w \in KeysAt(trace.key_hit) :
                 ~KeyIsBlack(w) => key_state[w] = UI_NORMAL

\* a click on the part of D4 that C#4 covers
C8_Witness ==
    /\ TickDone /\ trace.key_tested /\ trace.clicks >= 1
    /\ trace.key_hit = P_CS4_D4
    /\ Cardinality(KeysAt(trace.key_hit)) = 2

\* the step holds a select_sheet call
SelectsSheet ==
    \E i \in 1..Len(trace'.calls) :
        i > Len(trace.calls) /\ trace'.calls[i].op = "select_sheet"

(* C9: while a sheet is set, current_note_index is between 0 and the      *)
(* number of notes of the sheet, and no step lowers it unless the step    *)
(* selects a sheet or ends the session.                                   *)
C9_NoteIndexBounds ==
    /\ [](current_sheet # NoSheet
            => /\ 0 <= current_note_index
               /\ current_note_index <= Len(SheetNotes[current_sheet]))
    /\ [][(current_sheet # NoSheet /\ current_sheet' # NoSheet /\ ~SelectsSheet)
            => /\ current_note_index' >= current_note_index
               /\ current_sheet' = current_sheet]_vars

\* the index has reached the number of notes of the sheet
C9_Witness ==
    /\ current_sheet # NoSheet
    /\ current_note_index = Len(SheetNotes[current_sheet])
    /\ mode = MODE_COMPLETE

(* C10: an iteration that goes from SHEET_SELECT to SHEET_PLAY ends with  *)
(* note index 0 and with the sheet of the row that holds the pointer.     *)
C10_FreshSession ==
    (TickDone /\ trace.mode0 = MODE_SHEET_SELECT /\ mode = MODE_SHEET_PLAY)
        => /\ current_note_index = 0
           /\ current_sheet \in Sheets
           /\ collidepointF(ItemRect(current_sheet), finger_pos)
           /\ \E i \in 1..Len(trace.calls) :
                 /\ trace.calls[i].op = "select_sheet"
                 /\ trace.calls[i].arg = current_sheet

\* another sheet is selected from a session that had progress
C10_Witness ==
    /\ TickDone /\ trace.mode0 = MODE_SHEET_SELECT /\ mode = MODE_SHEET_PLAY
    /\ trace.idx0 > 0 /\ trace.sheet0 # current_sheet

\* the calls of the iteration that follows this one when the oracle returns
\* hand and the clock reads now1 <= now2 <= now3
FollowingCalls(hand, now1, now2, now3) ==
    LET s0 == [Self EXCEPT !.trace = NoTrace]
        s1 == [detect_hand(s0, hand) EXCEPT !.trace = StartTrace(s0, hand)]
        s2 == update_ui_states(s1, now1, now2)
    IN draw_popups(s2, now3).trace.calls

(* C11: an iteration that starts in SHEET_SELECT makes no call other than *)
(* select_sheet, and when it had a click the iteration that follows makes *)
(* no call at all, whatever the oracle and the clock return.              *)
C11_ClickModeScoped ==
    (TickDone /\ trace.mode0 = MODE_SHEET_SELECT)
        => /\ \A i \in 1..Len(trace.calls) : trace.calls[i].op = "select_sheet"
           /\ trace.clicks >= 1 =>
                 \A hand \in Hands :
                 \A now1 \in ClockFrom(ClockValues, ticks) :
                 \A now2 \in ClockFrom(ClockValues, now1) :
                 \A now3 \in ClockFrom(ClockValues, now2) :
                     FollowingCalls(hand, now1, now2, now3) = <<>>

\* a click in the popup with the pointer over the Exit button underneath
C11_Witness ==
    /\ TickDone /\ trace.mode0 = MODE_SHEET_SELECT /\ trace.clicks = 1
    /\ frame.pos = P_EXIT /\ mode = MODE_SHEET_SELECT

\* an iteration that got a frame in which the oracle found no hand has ended
NoHandTickDone == TickDone /\ trace.got_frame /\ ~frame.present

\* the buttons update_ui_states tests, and run() draws, in mode m
ButtonsOf(m) ==
    IF m = MODE_NORMAL THEN {BTN_EXIT, BTN_SHEET}
    ELSE IF m = MODE_SHEET_PLAY THEN {BTN_EXIT_SHEET, BTN_RESELECT}
    ELSE {}

(* C12: after an iteration whose frame shows no hand, every button tested *)
(* in the iteration is NORMAL and, when the key test ran, every key is    *)
(* NORMAL, whatever happened before.                                      *)
C12_NoHoverWithoutHand ==
    NoHandTickDone
        => /\ \A b \in ButtonsOf(trace.mode0) : btn_state[b] = UI_NORMAL
           /\ trace.key_tested => \A k \in Keys : key_state[k] = UI_NORMAL

(* C13: in an iteration whose frame shows no hand the tracked pointer is  *)
(* None, is_finger_bent is False, check_click returns False, no callback, *)
(* select_sheet or play_note call is made and the session is not changed  *)
(* unless the timer of the completion popup ends it.                      *)
C13_NoClickWithoutHand ==
    NoHandTickDone
        => /\ finger_pos = NoPos
           /\ ~is_finger_bent
           /\ trace.checks >= 1 /\ trace.clicks = 0
           /\ trace.calls = <<>>
           /\ \/ /\ current_sheet = trace.sheet0
                 /\ current_note_index = trace.idx0
                 /\ mode = trace.mode0
              \/ trace.draw_mode = MODE_COMPLETE /\ mode = MODE_NORMAL

\* the hand disappears during a pinch in a practice session
C13_Witness ==
    /\ NoHandTickDone /\ hand_tracking_enabled
    /\ trace.pinch0 /\ trace.bent0
    /\ trace.mode0 = MODE_SHEET_PLAY

\* a frame with a hand directly after a frame with a hand (pointer
\* specification): trace.pos0 is the tracked pointer the first frame left
SecondHandTick == TickDone /\ frame.present /\ trace.pos0 # NoPos

(* C14: when the sample of the second of two frames with a hand lies in   *)
(* the deadzone of the tracked pointer the first frame left, the tracked  *)
(* pointer after the second frame is the one after the first.             *)
C14_DeadzoneGate ==
    (SecondHandTick /\ InDeadzone(trace.pos0, frame.pos))
        => finger_pos = trace.pos0

(* C15: when two frames with a hand in a row have the same sample, the    *)
(* tracked pointer after the second frame is the one after the first.     *)
C15_DeadzoneIdempotence ==
    (SecondHandTick /\ trace.raw0 = frame.pos)
        => finger_pos = trace.pos0

\* the same landmark twice in a row
C15_Witness ==
    /\ SecondHandTick /\ trace.raw0 = frame.pos
    /\ frame.lm = [x |-> 502, y |-> YTop(5, 6)]
    /\ finger_pos = FloatPos(frame.pos)

(* C17: the sample of a frame lies on the screen; thumb_tip.y = 0 gives   *)
(* y_screen 0, y = 1 gives SCREEN_HEIGHT - 1, y = 0.5 gives               *)
(* SCREEN_HEIGHT / 2, and both segments of the mapping give that value at *)
(* 0.5.                                                                   *)
C17_GammaRemapBoundary ==
    /\ top_segment(1, 1, SCREEN_HEIGHT) = SCREEN_HEIGHT \div 2
    /\ bottom_segment(1, 1, SCREEN_HEIGHT) = SCREEN_HEIGHT \div 2
    /\ frame.present
         => /\ 0 <= raw_finger_pos[1] /\ raw_finger_pos[1] <= SCREEN_WIDTH - 1
            /\ 0 <= raw_finger_pos[2] /\ raw_finger_pos[2] <= SCREEN_HEIGHT - 1
            /\ frame.lm.y = Y_ZERO => raw_finger_pos[2] = 0
            /\ frame.lm.y = Y_ONE => raw_finger_pos[2] = SCREEN_HEIGHT - 1
            /\ frame.lm.y = Y_HALF => raw_finger_pos[2] = SCREEN_HEIGHT \div 2

\* a landmark right of the screen at y = 1 is clipped to the last pixel
C17_Witness ==
    /\ TickDone /\ frame.present
    /\ frame.lm = [x |-> 1500, y |-> Y_ONE]
    /\ raw_finger_pos = <<SCREEN_WIDTH - 1, SCREEN_HEIGHT - 1>>

\* an exit_game call made by the Exit button in NORMAL
IsExitClick(c) ==
    c.op = "exit_game" /\ c.arg = BTN_EXIT /\ c.mode_before = MODE_NORMAL

\* the step makes such a call, on an iteration with a click
ExitClickInStep ==
    /\ trace'.clicks >= 1
    /\ \E i \in 1..Len(trace'.calls) :
          i > Len(trace.calls) /\ IsExitClick(trace'.calls[i])

(* C16: running changes only from True to False, by a QUIT event polled   *)
(* at the top of an iteration or by a click on the Exit button in NORMAL; *)
(* exit_game is called by nothing else; once running is False at the top *)
(* of the loop the only step is the cleanup, which releases the camera    *)
(* and the hand tracker, and nothing happens after it.                    *)
C16_Exit ==
    /\ [][running' # running
            => running /\ ~running' /\ (pc = "loop" \/ ExitClickInStep)]_vars
    /\ [](\A i \in 1..Len(trace.calls) :
             trace.calls[i].op = "exit_game" => IsExitClick(trace.calls[i]))
    /\ [][(~running /\ pc = "loop") => (pc' = "done" /\ released')]_vars
    /\ [][pc # "done"]_vars
    /\ [](released <=> pc = "done")
    /\ [](pc = "done" => ~running)

\* the program has ended after a click on the Exit button
C16_Witness ==
    /\ pc = "done" /\ released /\ ~running
    /\ mode = MODE_NORMAL /\ btn_state[BTN_EXIT] = UI_ACTIVE

\* some get_hit_pos call of the iteration returned a position inside rect r
HitInside(r) == \E h \in trace.hits : collidepoint(r, h[2])

(* C18: every button drawn in an iteration (the buttons of the mode after *)
(* update_ui_states) is ACTIVE only if the iteration had a click and a    *)
(* hit position inside its rect, and HOVER only if it had a hit position  *)
(* inside its rect and no click.                                          *)
C18_ButtonStatesRecomputed ==
    TickDone =>
        \A b \in ButtonsOf(trace.draw_mode) :
            /\ btn_state[b] = UI_ACTIVE
                  => trace.clicks >= 1 /\ HitInside(ButtonRect(b))
            /\ btn_state[b] = UI_HOVER
                  => trace.clicks = 0 /\ HitInside(ButtonRect(b))

(* C19: after update_ui_states at most one key is not NORMAL and it is    *)
(* the target of the key test of the iteration; when the keys are drawn   *)
(* in SHEET_SELECT or COMPLETE every key is NORMAL.                       *)
C19_KeyStatesRecomputed ==
    TickDone =>
        /\ Cardinality({k \in Keys : key_state[k] # UI_NORMAL}) <= 1
        /\ trace.key_tested
              => \A k \in Keys : key_state[k] # UI_NORMAL
                                    => k = target_key(trace.key_hit)
        /\ trace.draw_mode \in {MODE_SHEET_SELECT, MODE_COMPLETE}
              => \A k \in Keys : key_state[k] = UI_NORMAL

(* C20: when the popup is drawn with an anchor set and the clock below    *)
(* click_lock_until, the rows drawn HOVER or ACTIVE and the row given to  *)
(* select_sheet are the rows that contain the anchor.                     *)
C20_RowsUseAnchor ==
    (/\ TickDone /\ trace.draw_mode = MODE_SHEET_SELECT
     /\ click_anchor_pos # NoPos /\ trace.draw_now < click_lock_until)
        => \A i \in Sheets :
              /\ trace.row_state[i] # UI_NORMAL
                    <=> collidepoint(ItemRect(i), click_anchor_pos)
              /\ (\E j \in 1..Len(trace.calls) :
                     trace.calls[j].op = "select_sheet" /\ trace.calls[j].arg = i)
                    => collidepoint(ItemRect(i), click_anchor_pos)

(* C21: in one iteration every get_hit_pos call (the calls of the button   *)
(* loop and the call of the key test) returns the same position: an       *)
(* iteration never tests one widget against the anchor and another        *)
(* against the tracked pointer.  Stated for iterations with a hand.      *)
C21_OneHitPosPerTick ==
    (TickDone /\ finger_pos # NoPos)
        => \A h1, h2 \in trace.hits : h1[2] = h2[2]

\* a step of an iteration in which cap.read() returned no frame
NoFrameStep == pc = "loop" /\ pc' = "loop" /\ trace'.skipped

(* C22: an iteration whose cap.read() returns no frame changes nothing of *)
(* the interaction state: mode, sheet and note index, tracked and raw     *)
(* pointer, pinch state and previous-pinch flag, anchor and lock time,    *)
(* popup timer and all button and key states are unchanged, check_click   *)
(* is not evaluated and no callback, select_sheet or play_note is called. *)
C22_NoFrameNoOp ==
    [][NoFrameStep =>
          /\ UNCHANGED <<mode, current_sheet, current_note_index,
                         raw_finger_pos, finger_pos, is_finger_bent,
                         prev_finger_bent, pinch_active, click_anchor_pos,
                         click_lock_until, complete_popup_timer,
                         btn_state, key_state, last_click, ticks>>
          /\ trace'.calls = <<>> /\ trace'.checks = 0 /\ trace'.hits = {}
          /\ ~trace'.got_frame]_vars

\* a frame was missed during a held pinch in a practice session, with the
\* anchor set and a key drawn ACTIVE
C22_Witness ==
    /\ pc = "loop" /\ trace.skipped
    /\ mode = MODE_SHEET_PLAY /\ current_note_index >= 1
    /\ is_finger_bent /\ prev_finger_bent /\ pinch_active
    /\ finger_pos # NoPos /\ click_anchor_pos # NoPos
    /\ \E k \in Keys : key_state[k] = UI_ACTIVE

\* the top of the loop (and the state after the loop has ended)
TickBoundary == pc \in {"loop", "done"}

(* C23: at every iteration boundary, mode NORMAL implies no session       *)
(* (current_sheet None, current_note_index 0); SHEET_PLAY implies a sheet *)
(* with current_note_index < len(notes); COMPLETE implies a sheet with    *)
(* current_note_index = len(notes).                                       *)
C23_ModeSessionConsistent ==
    TickBoundary =>
        /\ mode = MODE_NORMAL
              => current_sheet = NoSheet /\ current_note_index = 0
        /\ mode = MODE_SHEET_PLAY
              => /\ current_sheet # NoSheet
                 /\ current_note_index >= 0
                 /\ current_note_index < Len(SheetNotes[current_sheet])
        /\ mode = MODE_COMPLETE
              => /\ current_sheet # NoSheet
                 /\ current_note_index = Len(SheetNotes[current_sheet])

\* a completed session at the top of the loop
C23_Witness ==
    /\ pc = "loop" /\ mode = MODE_COMPLETE
    /\ current_sheet # NoSheet
    /\ current_note_index = Len(SheetNotes[current_sheet])

\* two rects have no pixel in common
Disjoint(r1, r2) ==
    \/ r1.x + r1.w <= r2.x \/ r2.x + r2.w <= r1.x
    \/ r1.y + r1.h <= r2.y \/ r2.y + r2.h <= r1.y

(* C24: in one iteration at most one callback, select_sheet or play_note  *)
(* call is made, also when the first call changes the mode before the key *)
(* test or the popup; the buttons of one mode do not overlap each other,  *)
(* no button overlaps a key and no two popup rows overlap.                *)
C24_OneActionPerTick ==
    TickDone =>
        /\ Len(trace.calls) <= 1
        /\ trace.clicks <= 1
        /\ \A m \in {MODE_NORMAL, MODE_SHEET_PLAY} :
              \A b1, b2 \in ButtonsOf(m) :
                 b1 # b2 => Disjoint(ButtonRect(b1), ButtonRect(b2))
        /\ \A b \in Buttons, k \in Keys : Disjoint(ButtonRect(b), KeyRect(k))
        /\ \A i, j \in Sheets : i # j => Disjoint(ItemRect(i), ItemRect(j))

\* a click on the exit-practice button: the callback set the mode to NORMAL,
\* the key test ran after it with the same click, and nothing else was called
C24_Witness ==
    /\ TickDone /\ trace.clicks = 1 /\ trace.key_tested
    /\ trace.mode0 = MODE_SHEET_PLAY /\ mode = MODE_NORMAL
    /\ Len(trace.calls) = 1 /\ trace.calls[1].op = "exit_sheet_mode"

====
